---- MODULE Spec2Model ----
(***************************************************************************)
(* A model of the layered store of `some`: the source ring (three CSV      *)
(* files bound as virtual tables), the staging ring (changelog + staging   *)
(* tables), the overlay views, the repositories and the staging service    *)
(* (add / commit).                                                         *)
(*                                                                         *)
(* Strings of the program are TLA+ strings.  Option<String> is a tuple of  *)
(* length 0 (None / SQL NULL / JSON null) or 1 (Some).  A CSV file is the  *)
(* sequence of its records, the header record first.                       *)
(***************************************************************************)
EXTENDS Integers, Sequences, FiniteSets, TLC

\* ------------------------------------------------------------------ bounds
MaxChangelog == 2
MaxFileLen == 3
MaxTags == 2
MaxClock == 2

\* ------------------------------------------------------------ value model
None == <<>>
Some(x) == <<x>>

TagIds == {"a", "b"}
ThingIds == {"u"}
\* entities::change::Data
DataTag ==
    [kind : {"Tag"}, id : TagIds, name : {None}, summary : {None}]
        \cup [kind : {"Tag"}, id : TagIds, name : {Some("A")}, summary : {Some("S")}]
DataThing ==
    [kind : {"Thing"}, url : ThingIds, name : {"X"}, summary : {None}, category : TagIds,
     tags : {<<>>, <<"a", "a">>}]
        \cup [kind : {"Thing"}, url : ThingIds, name : {"X"}, summary : {Some("S")},
              category : TagIds, tags : {<<"a">>}]
Data == DataTag \cup DataThing

\* entities::change::DataRef
DataRef == [kind : {"Tag"}, id : {"a"}] \cup [kind : {"Thing"}, id : {"u"}]

\* entities::change::Change
Insert(d) == [operation |-> "Insert", data |-> d]
Replace(d) == [operation |-> "Replace", data |-> d]
Delete(r) == [operation |-> "Delete", data |-> r]

\* ------------------------------------------------------------------ state
VARIABLES
    tag_csv,            \* data/tag.csv
    thing_csv,          \* data/thing.csv
    thing_tag_csv,      \* data/thing_tag.csv
    some_db,            \* .some.db, the staging database file of Strategy::Disk
    changelog,          \* staging.changelog, in rowid order
    staging_tag,        \* staging.tag
    staging_thing,      \* staging.thing
    staging_thing_tag,  \* staging.thing_tag
    now,                \* the last value read from the clock
    alive,              \* the process holding the Context is running
    last                \* the last call and what it returned

files == <<tag_csv, thing_csv, thing_tag_csv, some_db>>
staging == <<changelog, staging_tag, staging_thing, staging_thing_tag>>
vars == <<tag_csv, thing_csv, thing_tag_csv, some_db, changelog, staging_tag, staging_thing,
          staging_thing_tag, now, alive, last>>

\* ------------------------------------------------------------- serde_json
\* #[serde(tag = "operation")] over #[serde(tag = "kind")], url renamed to id.
to_json(change) ==
    IF change.operation = "Delete"
    THEN [operation |-> "Delete", kind |-> change.data.kind, id |-> change.data.id]
    ELSE IF change.data.kind = "Tag"
    THEN [operation |-> change.operation, kind |-> "Tag", id |-> change.data.id,
          name |-> change.data.name, summary |-> change.data.summary]
    ELSE [operation |-> change.operation, kind |-> "Thing", id |-> change.data.url,
          name |-> change.data.name, summary |-> change.data.summary,
          category |-> change.data.category, tags |-> change.data.tags]

\* Deserialising with the operation tag ignored: every change with data is an Insert.
from_json_insert(j) ==
    IF j.operation = "Delete"
    THEN Delete([kind |-> j.kind, id |-> j.id])
    ELSE IF j.kind = "Tag"
    THEN Insert([kind |-> "Tag", id |-> j.id, name |-> j.name, summary |-> j.summary])
    ELSE Insert([kind |-> "Thing", url |-> j.id, name |-> j.name, summary |-> j.summary,
                 category |-> j.category, tags |-> j.tags])

from_json(j) ==
    IF j.operation = "Delete"
    THEN Delete([kind |-> j.kind, id |-> j.id])
    ELSE IF j.kind = "Tag"
    THEN [operation |-> j.operation,
          data |-> [kind |-> "Tag", id |-> j.id, name |-> j.name, summary |-> j.summary]]
    ELSE [operation |-> j.operation,
          data |-> [kind |-> "Thing", url |-> j.id, name |-> j.name, summary |-> j.summary,
                    category |-> j.category, tags |-> j.tags]]

\* Event { timestamp, change }: the change is a nested object.
event_to_json(ev) == [timestamp |-> ev.timestamp, change |-> to_json(ev.change)]
event_from_json(j) == [timestamp |-> j.timestamp, change |-> from_json(j.change)]

\* lower() left out of the generated columns.
lower_identity(s) == s

\* SQLite lower() on the strings the generated columns see.
lower(s) ==
    CASE s = "Insert" -> "insert"
      [] s = "Replace" -> "replace"
      [] s = "Delete" -> "delete"
      [] s = "Tag" -> "tag"
      [] s = "Thing" -> "thing"
      [] OTHER -> s

\* Generated columns of staging.changelog.
changelog_operation(row) == lower(row.data.operation)
changelog_kind(row) == lower(row.data.kind)
changelog_id(row) == row.data.id

\* ---------------------------------------------------------------- CSV files
TagHeader == <<"id", "name", "summary">>
ThingHeader == <<"url", "name", "summary", "category_id">>
ThingTagHeader == <<"thing_id", "tag_id">>

\* csv serialisation of Option<String>: None is the empty field.
csv_option(o) == IF o = None THEN "" ELSE o[1]

\* thing::empty_string::serialize
empty_string_serialize(o) == IF o = None THEN "" ELSE o[1]

\* The csv virtual table: header='yes' skips the first record.
csv_rows(file) == IF Len(file) = 0 THEN <<>> ELSE Tail(file)

MapSeq(s, F(_)) == [i \in 1..Len(s) |-> F(s[i])]

\* ------------------------------------------------------------ overlay views
staged_tag_row(row) ==
    [id |-> row.data.id, name |-> row.data.name, summary |-> row.data.summary]

source_tag_row(rec) ==
    [id |-> rec[1], name |-> Some(rec[2]),
     summary |-> IF rec[3] = "" THEN None ELSE Some(rec[3])]

is_tag_insert(row) == changelog_kind(row) = "tag" /\ changelog_operation(row) = "insert"
is_thing_insert(row) == changelog_kind(row) = "thing" /\ changelog_operation(row) = "insert"

tag_view ==
    MapSeq(SelectSeq(changelog, is_tag_insert), staged_tag_row)
        \o MapSeq(csv_rows(tag_csv), source_tag_row)

staged_thing_row(row) ==
    [url |-> row.data.id, name |-> row.data.name, summary |-> row.data.summary,
     category_id |-> row.data.category]

source_thing_row(rec) ==
    [url |-> rec[1], name |-> rec[2],
     summary |-> IF rec[3] = "" THEN None ELSE Some(rec[3]),
     category_id |-> rec[4]]

thing_view ==
    MapSeq(SelectSeq(changelog, is_thing_insert), staged_thing_row)
        \o MapSeq(csv_rows(thing_csv), source_thing_row)

\* ------------------------------------------------------------- repositories
TagStore_get(id) ==
    LET rows == SelectSeq(tag_view, LAMBDA r : r.id = id)
    IN IF rows = <<>> THEN None ELSE Some(rows[1])

TagStore_len == Len(tag_view)

ThingStore_get(url) ==
    LET rows == SelectSeq(thing_view, LAMBDA r : r.url = url)
    IN IF rows = <<>> THEN None ELSE Some(rows[1])

ThingStore_len == Len(thing_view)

ChangeStore_len == Len(changelog)

\* ------------------------------------------------------- services::staging
assert_tag_exists(id) == TagStore_get(id) # None
\* The thing looked up in the tag repository.
assert_thing_exists_in_tags(url) == TagStore_get(url) # None
assert_thing_exists(url) == ThingStore_get(url) # None

assert_data_exists(data) ==
    IF data.kind = "Thing"
    THEN IF assert_thing_exists(data.url) THEN "Duplicate" ELSE "Ok"
    ELSE IF assert_tag_exists(data.id) THEN "Duplicate" ELSE "Ok"

ChangeStore_add(change, t) == Append(changelog, [timestamp |-> t, data |-> to_json(change)])

\* services::staging::add, the clock reading t at the insert.
add(data, t) ==
    /\ alive
    /\ t >= now
    /\ IF assert_data_exists(data) = "Duplicate"
       THEN /\ last' = [op |-> "staging::add", res |-> "Duplicate"]
            /\ UNCHANGED <<files, staging, now, alive>>
       ELSE /\ Len(changelog) < MaxChangelog
            /\ now' = t
            /\ changelog' = ChangeStore_add(Insert(data), t)
            /\ last' = [op |-> "staging::add", res |-> "Ok"]
            /\ UNCHANGED <<files, staging_tag, staging_thing, staging_thing_tag, alive>>

\* ChangeStore::to_vec: ORDER BY timestamp ASC over the rowid scan (a stable sort),
\* each row deserialised into an Event.
\* ORDER BY timestamp DESC: the row goes before the rows with a smaller timestamp.
RECURSIVE insert_by_timestamp_desc(_, _)
insert_by_timestamp_desc(sorted, row) ==
    IF sorted = <<>> THEN <<row>>
    ELSE IF sorted[Len(sorted)].timestamp >= row.timestamp THEN Append(sorted, row)
    ELSE Append(insert_by_timestamp_desc(SubSeq(sorted, 1, Len(sorted) - 1), row),
                sorted[Len(sorted)])

RECURSIVE insert_by_timestamp(_, _)
insert_by_timestamp(sorted, row) ==
    IF sorted = <<>> THEN <<row>>
    ELSE IF sorted[Len(sorted)].timestamp <= row.timestamp THEN Append(sorted, row)
    ELSE Append(insert_by_timestamp(SubSeq(sorted, 1, Len(sorted) - 1), row),
                sorted[Len(sorted)])

RECURSIVE order_by_timestamp(_)
order_by_timestamp(rows) ==
    IF rows = <<>> THEN <<>>
    ELSE insert_by_timestamp(order_by_timestamp(SubSeq(rows, 1, Len(rows) - 1)),
                             rows[Len(rows)])

ChangeStore_to_vec ==
    MapSeq(order_by_timestamp(changelog),
           LAMBDA row : [timestamp |-> row.timestamp, change |-> from_json(row.data)])

\* write_once(&tag, &mut tag_file): one record of tag.csv.
write_once_tag(d) ==
    <<[file |-> "tag", rec |-> <<d.id, csv_option(d.name), csv_option(d.summary)>>]>>

\* write_once(&thing, &mut thing_file): one record of thing.csv.
write_once_thing(d) ==
    <<[file |-> "thing",
       rec |-> <<d.url, d.name, empty_string_serialize(d.summary), d.category>>]>>

\* write_many stopping after the first record.
write_many_first(d) ==
    [i \in 1..(IF Len(d.tags) = 0 THEN 0 ELSE 1) |->
        [file |-> "thing_tag", rec |-> <<d.url, d.tags[i]>>]]

\* write_many(&thing_tags, &mut thing_tags_file): one record per entry of the tag list.
write_many(d) ==
    [i \in 1..Len(d.tags) |-> [file |-> "thing_tag", rec |-> <<d.url, d.tags[i]>>]]

\* The records one Insert event appends, in the order the loop body writes them.
event_writes(change) ==
    IF change.data.kind = "Tag"
    THEN write_once_tag(change.data)
    ELSE write_once_thing(change.data) \o write_many(change.data)

\* The loop of commit: the records written until the events are exhausted or a
\* Replace / Delete event hits unimplemented!().
RECURSIVE drain(_)
drain(events) ==
    IF events = <<>> THEN [writes |-> <<>>, panic |-> FALSE]
    ELSE IF Head(events).change.operation # "Insert" THEN [writes |-> <<>>, panic |-> TRUE]
    ELSE LET rest == drain(Tail(events))
         IN [writes |-> event_writes(Head(events).change) \o rest.writes,
             panic |-> rest.panic]

\* The file opened with truncate(true).
appended_truncated(name, file, writes) ==
    MapSeq(SelectSeq(writes, LAMBDA w : w.file = name), LAMBDA w : w.rec)

\* A file opened by Context::open_resource (append, no truncate) after `writes`.
appended(name, file, writes) ==
    file \o MapSeq(SelectSeq(writes, LAMBDA w : w.file = name), LAMBDA w : w.rec)

\* A flush that deletes no row.
ChangeStore_flush_nothing == changelog

\* ChangeStore::flush
ChangeStore_flush == <<>>

commit ==
    /\ alive
    /\ LET d == drain(ChangeStore_to_vec)
           n == Len(d.writes)
       IN \/ \* open_resource, ctx.tx() or ChangeStore::to_vec fails
             /\ last' = [op |-> "staging::commit", res |-> "Err", written |-> 0,
                         opened |-> FALSE]
             /\ UNCHANGED <<files, staging, now, alive>>
          \/ \E k \in 0..n :
               LET done == SubSeq(d.writes, 1, k)
               IN /\ tag_csv' = appended("tag", tag_csv, done)
                  /\ thing_csv' = appended("thing", thing_csv, done)
                  /\ thing_tag_csv' = appended("thing_tag", thing_tag_csv, done)
                  /\ Len(tag_csv') <= MaxFileLen
                  /\ Len(thing_csv') <= MaxFileLen
                  /\ Len(thing_tag_csv') <= MaxFileLen
                  /\ UNCHANGED some_db
                  /\ IF k < n
                     THEN \* the (k+1)-th append fails: `?` returns, the transaction rolls back
                          /\ last' = [op |-> "staging::commit", res |-> "Err", written |-> k,
                                      opened |-> TRUE]
                          /\ UNCHANGED <<staging, now, alive>>
                     ELSE IF d.panic
                     THEN \* unimplemented!() unwinds: rollback, the process ends
                          /\ last' = [op |-> "staging::commit", res |-> "Panic", written |-> k,
                                      opened |-> TRUE]
                          /\ alive' = FALSE
                          /\ UNCHANGED <<staging, now>>
                     ELSE /\ changelog' = ChangeStore_flush
                          /\ last' = [op |-> "staging::commit", res |-> "Ok", written |-> k,
                                      opened |-> TRUE]
                          /\ UNCHANGED <<staging_tag, staging_thing, staging_thing_tag,
                                         now, alive>>

\* ------------------------------------------------- Repository write methods
\* entities::tag::Record, entities::thing::Record, entities::thingtag::Thingtag
TagRecords ==
    [id : TagIds, name : {Some("A")}, summary : {None}]
        \cup [id : {"a"}, name : {None}, summary : {None}]
ThingRecords == [url : ThingIds, name : {"X"}, summary : {None}, category_id : TagIds]
Thingtags == [thing_id : ThingIds, tag_id : TagIds]

\* The overlay view thing_tag: the rows of both rings.
source_thing_tag_row(rec) == [thing_id |-> rec[1], tag_id |-> rec[2]]

thing_tag_view ==
    staging_thing_tag
        \cup {source_thing_tag_row(thing_tag_csv[i]) : i \in 2..Len(thing_tag_csv)}

\* ThingtagStore::len: count(1) over the UNION ALL.
ThingtagStore_len == Cardinality(staging_thing_tag) + Len(csv_rows(thing_tag_csv))

\* TagStore::add: INSERT INTO staging.tag, PRIMARY KEY (id).
TagStore_add(entity) ==
    /\ alive
    /\ IF \E r \in staging_tag : r.id = entity.id
       THEN /\ last' = [op |-> "TagStore::add", res |-> "Err"]
            /\ UNCHANGED staging_tag
       ELSE /\ staging_tag' = staging_tag \cup {entity}
            /\ last' = [op |-> "TagStore::add", res |-> "Ok"]
    /\ UNCHANGED <<files, changelog, staging_thing, staging_thing_tag, now, alive>>

\* ThingStore::add: INSERT INTO staging.thing, PRIMARY KEY (url).
ThingStore_add(entity) ==
    /\ alive
    /\ IF \E r \in staging_thing : r.url = entity.url
       THEN /\ last' = [op |-> "ThingStore::add", res |-> "Err"]
            /\ UNCHANGED staging_thing
       ELSE /\ staging_thing' = staging_thing \cup {entity}
            /\ last' = [op |-> "ThingStore::add", res |-> "Ok"]
    /\ UNCHANGED <<files, changelog, staging_tag, staging_thing_tag, now, alive>>

\* ThingtagStore::add: INSERT INTO staging.thing_tag, PRIMARY KEY (thing_id, tag_id).
ThingtagStore_add(entity) ==
    /\ alive
    /\ IF entity \in staging_thing_tag
       THEN /\ last' = [op |-> "ThingtagStore::add", res |-> "Err"]
            /\ UNCHANGED staging_thing_tag
       ELSE /\ staging_thing_tag' = staging_thing_tag \cup {entity}
            /\ last' = [op |-> "ThingtagStore::add", res |-> "Ok"]
    /\ UNCHANGED <<files, changelog, staging_tag, staging_thing, now, alive>>

\* TagStore::remove: DELETE FROM staging.tag, then DELETE FROM staging.thing_tag.
TagStore_remove(entity_id) ==
    /\ alive
    /\ staging_tag' = {r \in staging_tag : r.id # entity_id}
    /\ staging_thing_tag' = {r \in staging_thing_tag : r.tag_id # entity_id}
    /\ last' = [op |-> "TagStore::remove", res |-> "Ok"]
    /\ UNCHANGED <<files, changelog, staging_thing, now, alive>>

\* ThingStore::remove: DELETE FROM staging.thing, then DELETE FROM staging.thing_tag.
ThingStore_remove(entity_id) ==
    /\ alive
    /\ staging_thing' = {r \in staging_thing : r.url # entity_id}
    /\ staging_thing_tag' = {r \in staging_thing_tag : r.thing_id # entity_id}
    /\ last' = [op |-> "ThingStore::remove", res |-> "Ok"]
    /\ UNCHANGED <<files, changelog, staging_tag, now, alive>>

\* --------------------------------------------------- TagStore::list_without
\* The characters of the identifiers the model uses.
chars(s) ==
    CASE s = "a" -> <<"a">>
      [] s = "b" -> <<"b">>
      [] s = "u" -> <<"u">>
      [] s = "'" -> <<"'">>
      [] s = "a','b" -> <<"a", "'", ",", "'", "b">>

\* format!("'{}'", x)
format_quoted(x) == <<"'">> \o chars(x) \o <<"'">>

\* .collect::<Vec<String>>().join(",")
RECURSIVE join(_)
join(parts) ==
    IF parts = <<>> THEN <<>>
    ELSE IF Len(parts) = 1 THEN parts[1]
    ELSE parts[1] \o <<",">> \o join(Tail(parts))

\* The text put between the parentheses of NOT IN (...).
in_list_text(ids) == join(MapSeq(ids, format_quoted))

\* SQLite reading a string literal that opens at text[i]: '' inside is one quote,
\* a lone ' closes it.  next = 0: the literal is not terminated.
RECURSIVE sql_literal(_, _, _)
sql_literal(text, i, acc) ==
    IF i > Len(text) THEN [next |-> 0, lit |-> acc]
    ELSE IF text[i] # "'" THEN sql_literal(text, i + 1, Append(acc, text[i]))
    ELSE IF i + 1 <= Len(text) /\ text[i + 1] = "'"
    THEN sql_literal(text, i + 2, Append(acc, "'"))
    ELSE [next |-> i + 1, lit |-> acc]

\* conn.prepare on id NOT IN (text): the set of literals of the list, or a
\* syntax error.  The empty list is accepted by SQLite.
RECURSIVE sql_in_list(_, _)
sql_in_list(text, i) ==
    IF i > Len(text) \/ text[i] # "'" THEN [ok |-> FALSE, lits |-> {}]
    ELSE LET l == sql_literal(text, i + 1, <<>>)
         IN IF l.next = 0 THEN [ok |-> FALSE, lits |-> {}]
            ELSE IF l.next > Len(text) THEN [ok |-> TRUE, lits |-> {l.lit}]
            ELSE IF text[l.next] # "," THEN [ok |-> FALSE, lits |-> {}]
            ELSE LET rest == sql_in_list(text, l.next + 1)
                 IN [ok |-> rest.ok, lits |-> rest.lits \cup {l.lit}]

prepare_in_list(text) ==
    IF text = <<>> THEN [ok |-> TRUE, lits |-> {}] ELSE sql_in_list(text, 1)

\* IN where the query has NOT IN.
list_with(ids) ==
    LET stmt == prepare_in_list(in_list_text(ids))
    IN IF ~stmt.ok
       THEN [res |-> "Err", out |-> <<>>]
       ELSE [res |-> "Ok",
             out |-> SelectSeq(tag_view, LAMBDA r : chars(r.id) \in stmt.lits)]

list_without(ids) ==
    LET stmt == prepare_in_list(in_list_text(ids))
    IN IF ~stmt.ok
       THEN [res |-> "Err", out |-> <<>>]
       ELSE [res |-> "Ok",
             out |-> SelectSeq(tag_view, LAMBDA r : chars(r.id) \notin stmt.lits)]

ListWithoutArgs ==
    {<<>>, <<"a">>, <<"b">>, <<"a", "b">>, <<"'">>, <<"a','b">>}

TagStore_list_without(ids) ==
    /\ alive
    /\ last' = [op |-> "TagStore::list_without", res |-> list_without(ids).res,
                out |-> list_without(ids).out]
    /\ UNCHANGED <<files, staging, now, alive>>

\* Context::new: Store::open with Strategy::Memory attaches fresh staging tables.
\* The staging database of a new store, before anything is staged.
EmptyStaging == <<<<>>, {}, {}, {}>>

\* The connection of the session that ends is dropped: .some.db, when it was its
\* staging database, keeps the rows it holds.
detach ==
    IF some_db.attached
    THEN [exists |-> TRUE, attached |-> FALSE, staging |-> staging]
    ELSE some_db

open ==
    /\ changelog' = <<>>
    /\ staging_tag' = {}
    /\ staging_thing' = {}
    /\ staging_thing_tag' = {}
    /\ alive' = TRUE
    /\ last' = [op |-> "open", res |-> "Ok"]
    /\ some_db' = detach
    /\ UNCHANGED <<tag_csv, thing_csv, thing_tag_csv, now>>

\* The packages a session may be opened on.
InitPackages ==
    { <<<<TagHeader>>, <<ThingHeader>>, <<ThingTagHeader>>>>,
      <<<<TagHeader, <<"a", "A", "">>>>, <<ThingHeader>>, <<ThingTagHeader>>>>,
      <<<<TagHeader, <<"a", "A", "">>>>, <<ThingHeader, <<"u", "X", "", "a">>>>,
        <<ThingTagHeader, <<"u", "a">>>>>> }

Init ==
    /\ \E p \in InitPackages :
         /\ tag_csv = p[1]
         /\ thing_csv = p[2]
         /\ thing_tag_csv = p[3]
    /\ some_db = [exists |-> FALSE, attached |-> FALSE, staging |-> EmptyStaging]
    /\ changelog = <<>>
    /\ staging_tag = {}
    /\ staging_thing = {}
    /\ staging_thing_tag = {}
    /\ now = 0
    /\ alive = TRUE
    /\ last = [op |-> "open", res |-> "Ok"]

Next ==
    \/ \E data \in Data : add(data, now)
    \/ commit
    \/ open

Spec == Init /\ [][Next]_vars

\* The Repository interface used directly within a session.
RepoData ==
    {d \in DataTag : d.name = None} \cup {d \in DataThing : d.tags = <<>>}

NextRepo ==
    \/ \E data \in RepoData : add(data, now)
    \/ \E entity \in TagRecords : TagStore_add(entity)
    \/ \E entity \in ThingRecords : ThingStore_add(entity)
    \/ \E entity \in Thingtags : ThingtagStore_add(entity)
    \/ \E entity_id \in TagIds : TagStore_remove(entity_id)
    \/ \E entity_id \in ThingIds : ThingStore_remove(entity_id)
    \/ \E ids \in ListWithoutArgs : TagStore_list_without(ids)
    \/ open

SpecRepo == Init /\ [][NextRepo]_vars

\* ------------------------------------------- ChangeStore used directly
\* The changes a collaborator may hand to ChangeStore::add.
ChangeData ==
    {[kind |-> "Tag", id |-> "a", name |-> None, summary |-> None],
     [kind |-> "Thing", url |-> "u", name |-> "X", summary |-> None, category |-> "a",
      tags |-> <<>>]}
Changes ==
    {Insert(d) : d \in ChangeData} \cup {Replace(d) : d \in ChangeData}
        \cup {Delete(r) : r \in DataRef}

\* ChangeStore::add run in a transaction of its own: no check precedes the INSERT.
ChangeStore_add_call(change, t) ==
    /\ alive
    /\ t >= now
    /\ Len(changelog) < MaxChangelog
    /\ now' = t
    /\ changelog' = ChangeStore_add(change, t)
    /\ last' = [op |-> "ChangeStore::add", res |-> "Ok"]
    /\ UNCHANGED <<files, staging_tag, staging_thing, staging_thing_tag, alive>>

NextChange ==
    \/ \E data \in ChangeData : add(data, now)
    \/ \E change \in Changes : ChangeStore_add_call(change, now)
    \/ commit
    \/ open

SpecChange == Init /\ [][NextChange]_vars

\* The two arms of the UNION ALL of the tag and thing views.  The views have no
\* ORDER BY: SQL lets the engine return the arms in either order.
tag_view_staging == MapSeq(SelectSeq(changelog, is_tag_insert), staged_tag_row)
tag_view_source == MapSeq(csv_rows(tag_csv), source_tag_row)
tag_view_orders == {tag_view_staging \o tag_view_source, tag_view_source \o tag_view_staging}

thing_view_staging == MapSeq(SelectSeq(changelog, is_thing_insert), staged_thing_row)
thing_view_source == MapSeq(csv_rows(thing_csv), source_thing_row)
thing_view_orders ==
    {thing_view_staging \o thing_view_source, thing_view_source \o thing_view_staging}

\* TagStore::get / ThingStore::get over the rows in a given order: rows.next().
TagStore_get_in(rows, id) ==
    LET found == SelectSeq(rows, LAMBDA r : r.id = id)
    IN IF found = <<>> THEN None ELSE Some(found[1])

ThingStore_get_in(rows, url) ==
    LET found == SelectSeq(rows, LAMBDA r : r.url = url)
    IN IF found = <<>> THEN None ELSE Some(found[1])

\* ------------------------------------------------------------ list queries
\* Repository::to_vec: every row of the view.
TagStore_to_vec == tag_view
ThingStore_to_vec == thing_view

\* TagStore::list
TagStore_list == TagStore_to_vec

\* The BINARY collation on the ids of the model.
collate(s) ==
    CASE s = "a" -> 1
      [] s = "b" -> 2
      [] s = "u" -> 3
      [] OTHER -> 4

\* ORDER BY tag_id over a column of ids.
RECURSIVE insert_by_tag_id(_, _)
insert_by_tag_id(sorted, id) ==
    IF sorted = <<>> THEN <<id>>
    ELSE IF collate(sorted[Len(sorted)]) <= collate(id) THEN Append(sorted, id)
    ELSE Append(insert_by_tag_id(SubSeq(sorted, 1, Len(sorted) - 1), id),
                sorted[Len(sorted)])

RECURSIVE order_by_tag_id(_)
order_by_tag_id(ids) ==
    IF ids = <<>> THEN <<>>
    ELSE insert_by_tag_id(order_by_tag_id(SubSeq(ids, 1, Len(ids) - 1)), ids[Len(ids)])

\* tags_for: SELECT tag_id FROM source.thing_tag WHERE thing_id = $1 ORDER BY tag_id
tags_for(thing_id) ==
    order_by_tag_id(MapSeq(SelectSeq(csv_rows(thing_tag_csv), LAMBDA rec : rec[1] = thing_id),
                           LAMBDA rec : rec[2]))

\* ThingStore::list_categorised: the rows of the thing view with the category,
\* each with tags_for its url.
list_categorised(category_id) ==
    MapSeq(SelectSeq(thing_view, LAMBDA r : r.category_id = category_id),
           LAMBDA r : [url |-> r.url, name |-> r.name, summary |-> r.summary,
                       category |-> r.category_id, tags |-> tags_for(r.url)])

\* The columns of a row of source.tag as the csv table returns them (text, never
\* NULL), and the NULL row a LEFT JOIN gives a thing without a matching tag.
source_tag_columns(rec) == [id |-> Some(rec[1]), name |-> Some(rec[2]), summary |-> Some(rec[3])]
NullTag == [id |-> None, name |-> None, summary |-> None]

\* SELECT DISTINCT tag.id, tag.name, tag.summary
\* FROM source.thing LEFT JOIN source.tag ON thing.category_id = tag.id
left_join_category ==
    UNION { LET matches == {source_tag_columns(tag_csv[j]) :
                                j \in {k \in 2..Len(tag_csv) : tag_csv[k][1] = thing_csv[i][4]}}
            IN IF matches = {} THEN {NullTag} ELSE matches : i \in 2..Len(thing_csv) }

\* ORDER BY tag.id ASC: NULL sorts first.
order_rank(row) == IF row.id = None THEN 0 ELSE collate(row.id[1])

RECURSIVE order_by_id(_)
order_by_id(rows) ==
    IF rows = {} THEN <<>>
    ELSE LET r == CHOOSE x \in rows : \A y \in rows : order_rank(x) <= order_rank(y)
         IN <<r>> \o order_by_id(rows \ {r})

\* TagStore::list_categories: row.get(0) into tag::Id fails on NULL, and the
\* failed row ends the call with Err.
list_categories ==
    LET rows == order_by_id(left_join_category)
    IN IF \E i \in DOMAIN rows : rows[i].id = None
       THEN [res |-> "Err", out |-> <<>>]
       ELSE [res |-> "Ok",
             out |-> MapSeq(rows, LAMBDA r : [id |-> r.id[1], name |-> r.name,
                                              summary |-> r.summary])]

TagStore_list_categories ==
    /\ alive
    /\ last' = [op |-> "TagStore::list_categories", res |-> list_categories.res,
                out |-> list_categories.out]
    /\ UNCHANGED <<files, staging, now, alive>>

ThingStore_list_categorised(category_id) ==
    /\ alive
    /\ last' = [op |-> "ThingStore::list_categorised", res |-> "Ok",
                out |-> list_categorised(category_id)]
    /\ UNCHANGED <<files, staging, now, alive>>

TagStore_list_call ==
    /\ alive
    /\ last' = [op |-> "TagStore::list", res |-> "Ok", out |-> TagStore_list]
    /\ UNCHANGED <<files, staging, now, alive>>

\* Staging, committing and listing within a session.
QueryData ==
    [kind : {"Tag"}, id : TagIds, name : {Some("A")}, summary : {Some("S")}]
        \cup [kind : {"Thing"}, url : ThingIds, name : {"X"}, summary : {None},
              category : TagIds, tags : {<<"b", "a">>}]

NextQuery ==
    \/ \E data \in QueryData : add(data, now)
    \/ commit
    \/ TagStore_list_categories
    \/ \E category_id \in TagIds : ThingStore_list_categorised(category_id)
    \/ TagStore_list_call
    \/ open

SpecQuery == Init /\ [][NextQuery]_vars

\* --------------------------------------------------------- NewThingBuilder
\* The values handed to the with_* methods.
BuilderUrls == {"u", "v"}
BuilderNames == {"X", "Y"}
BuilderSummaries == {"S"}
BuilderCategories == {"a", "b"}
BuilderTagLists == {<<>>, <<"a", "b">>}
BuilderTags == {"a"}

\* NewThingBuilder::new
NewThingBuilder_new_value ==
    [url |-> None, name |-> None, summary |-> None, tags |-> <<>>, category_id |-> None]

\* build with the name looked at before the url.
build_name_first(b) ==
    IF b.name = None THEN [res |-> "MissingName", out |-> None]
    ELSE IF b.url = None THEN [res |-> "MissingUrl", out |-> None]
    ELSE IF b.category_id = None THEN [res |-> "MissingCategory", out |-> None]
    ELSE [res |-> "Ok",
          out |-> Some([url |-> b.url[1], name |-> b.name[1], summary |-> b.summary,
                        category_id |-> b.category_id[1], tags |-> b.tags])]

\* NewThingBuilder::build: the fields are taken in the order of the struct
\* literal, each `?` returning at the first absent one.
build(b) ==
    IF b.url = None THEN [res |-> "MissingUrl", out |-> None]
    ELSE IF b.name = None THEN [res |-> "MissingName", out |-> None]
    ELSE IF b.category_id = None THEN [res |-> "MissingCategory", out |-> None]
    ELSE [res |-> "Ok",
          out |-> Some([url |-> b.url[1], name |-> b.name[1], summary |-> b.summary,
                        category_id |-> b.category_id[1], tags |-> b.tags])]

\* A builder is held by the caller from new() on, until build(self) consumes it.
HasBuilder == "builder" \in DOMAIN last

NewThingBuilder_new ==
    /\ last' = [op |-> "NewThingBuilder::new", res |-> "Ok",
                builder |-> NewThingBuilder_new_value]
    /\ UNCHANGED <<files, staging, now, alive>>

NewThingBuilder_with_url(url) ==
    /\ HasBuilder
    /\ last' = [op |-> "NewThingBuilder::with_url", res |-> "Ok",
                builder |-> [last.builder EXCEPT !.url = Some(url)]]
    /\ UNCHANGED <<files, staging, now, alive>>

NewThingBuilder_with_name(name) ==
    /\ HasBuilder
    /\ last' = [op |-> "NewThingBuilder::with_name", res |-> "Ok",
                builder |-> [last.builder EXCEPT !.name = Some(name)]]
    /\ UNCHANGED <<files, staging, now, alive>>

NewThingBuilder_with_summary(summary) ==
    /\ HasBuilder
    /\ last' = [op |-> "NewThingBuilder::with_summary", res |-> "Ok",
                builder |-> [last.builder EXCEPT !.summary = Some(summary)]]
    /\ UNCHANGED <<files, staging, now, alive>>

NewThingBuilder_with_tags(tags) ==
    /\ HasBuilder
    /\ last' = [op |-> "NewThingBuilder::with_tags", res |-> "Ok",
                builder |-> [last.builder EXCEPT !.tags = tags]]
    /\ UNCHANGED <<files, staging, now, alive>>

NewThingBuilder_with_tag(tag) ==
    /\ HasBuilder
    /\ Len(last.builder.tags) < MaxTags
    /\ last' = [op |-> "NewThingBuilder::with_tag", res |-> "Ok",
                builder |-> [last.builder EXCEPT !.tags = Append(@, tag)]]
    /\ UNCHANGED <<files, staging, now, alive>>

NewThingBuilder_with_category_id(category_id) ==
    /\ HasBuilder
    /\ last' = [op |-> "NewThingBuilder::with_category_id", res |-> "Ok",
                builder |-> [last.builder EXCEPT !.category_id = Some(category_id)]]
    /\ UNCHANGED <<files, staging, now, alive>>

NewThingBuilder_build ==
    /\ HasBuilder
    /\ last' = [op |-> "NewThingBuilder::build", res |-> build(last.builder).res,
                out |-> build(last.builder).out]
    /\ UNCHANGED <<files, staging, now, alive>>

NextBuilder ==
    \/ NewThingBuilder_new
    \/ \E url \in BuilderUrls : NewThingBuilder_with_url(url)
    \/ \E name \in BuilderNames : NewThingBuilder_with_name(name)
    \/ \E summary \in BuilderSummaries : NewThingBuilder_with_summary(summary)
    \/ \E tags \in BuilderTagLists : NewThingBuilder_with_tags(tags)
    \/ \E tag \in BuilderTags : NewThingBuilder_with_tag(tag)
    \/ \E category_id \in BuilderCategories : NewThingBuilder_with_category_id(category_id)
    \/ NewThingBuilder_build

SpecBuilder == Init /\ [][NextBuilder]_vars

\* ------------------------------------- Repository replace, ChangeStore calls
\* INSERT with no conflict clause handling: the row is added next to the old one.
insert_keep_tag(rows, entity) == rows \cup {entity}

\* INSERT OR REPLACE INTO staging.tag, PRIMARY KEY (id): the row with the key of
\* the new one is deleted, then the new one is inserted.
insert_or_replace_tag(rows, entity) == {r \in rows : r.id # entity.id} \cup {entity}

\* INSERT OR REPLACE INTO staging.thing, PRIMARY KEY (url).
insert_or_replace_thing(rows, entity) == {r \in rows : r.url # entity.url} \cup {entity}

\* TagStore::replace writing the record to data/tag.csv as well.
TagStore_replace_source(entity) ==
    /\ alive
    /\ staging_tag' = insert_or_replace_tag(staging_tag, entity)
    /\ tag_csv' = Append(tag_csv, <<entity.id, csv_option(entity.name),
                                    csv_option(entity.summary)>>)
    /\ last' = [op |-> "TagStore::replace", res |-> "Ok",
                existed |-> \E r \in staging_tag : r.id = entity.id]
    /\ UNCHANGED <<thing_csv, thing_tag_csv, some_db, changelog, staging_thing,
                   staging_thing_tag, now, alive>>

\* TagStore::replace.  `existed` records whether staging.tag held the key.
TagStore_replace(entity) ==
    /\ alive
    /\ staging_tag' = insert_or_replace_tag(staging_tag, entity)
    /\ last' = [op |-> "TagStore::replace", res |-> "Ok",
                existed |-> \E r \in staging_tag : r.id = entity.id]
    /\ UNCHANGED <<files, changelog, staging_thing, staging_thing_tag, now, alive>>

\* ThingStore::replace
ThingStore_replace(entity) ==
    /\ alive
    /\ staging_thing' = insert_or_replace_thing(staging_thing, entity)
    /\ last' = [op |-> "ThingStore::replace", res |-> "Ok",
                existed |-> \E r \in staging_thing : r.url = entity.url]
    /\ UNCHANGED <<files, changelog, staging_tag, staging_thing_tag, now, alive>>

\* ThingtagStore::replace is unimplemented!(): the call panics.
ThingtagStore_replace(entity) ==
    /\ alive
    /\ alive' = FALSE
    /\ last' = [op |-> "ThingtagStore::replace", res |-> "Panic"]
    /\ UNCHANGED <<files, staging, now>>

\* ThingtagStore::remove: DELETE FROM staging.thing_tag WHERE thing_id = $1 AND tag_id = $2
ThingtagStore_remove(entity_id) ==
    /\ alive
    /\ staging_thing_tag' =
           {r \in staging_thing_tag :
               ~(r.thing_id = entity_id[1] /\ r.tag_id = entity_id[2])}
    /\ last' = [op |-> "ThingtagStore::remove", res |-> "Ok"]
    /\ UNCHANGED <<files, changelog, staging_tag, staging_thing, now, alive>>

\* entities::change::EventId: the operation and kind as the generated columns
\* hold them.
EventIds == [timestamp : {0}, operation : {"insert", "delete"}, kind : {"tag"}, id : {"a"}]

\* params![&event_id.timestamp, &event_id.operation, &event_id.kind, &event_id.id]
event_id_params(event_id) ==
    <<event_id.timestamp, event_id.operation, event_id.kind, event_id.id>>

\* The statements of ChangeStore::get and ChangeStore::remove name $1, $2, $3 and
\* $3 again: three parameters.
bind_parameter_count == 3

\* Statement::bind_parameters: the values given must be as many as the
\* parameters of the statement.
bind_parameters(params) ==
    IF Len(params) # bind_parameter_count THEN "InvalidParameterCount" ELSE "Ok"

\* timestamp = $1: the column holds the text of datetime('now'), $1 is bound as
\* an integer; SQLite never finds a text equal to an integer.
datetime_eq_integer(ts, n) == FALSE

\* WHERE timestamp = $1 AND operation = $2 AND kind = $3 AND id = $3
event_id_where(row, params) ==
    /\ datetime_eq_integer(row.timestamp, params[1])
    /\ changelog_operation(row) = params[2]
    /\ changelog_kind(row) = params[3]
    /\ changelog_id(row) = params[3]

\* ChangeStore::get
ChangeStore_get(event_id) ==
    LET params == event_id_params(event_id)
        rows == SelectSeq(changelog, LAMBDA row : event_id_where(row, params))
    IN IF bind_parameters(params) # "Ok" THEN [res |-> "Err", out |-> None]
       ELSE IF rows = <<>> THEN [res |-> "Ok", out |-> None]
       ELSE [res |-> "Ok", out |-> Some(from_json(rows[1].data))]

\* A remove that deletes the rows whose operation, kind and id are the ones given.
ChangeStore_remove_matching(event_id) ==
    [res |-> "Ok",
     rows |-> SelectSeq(changelog, LAMBDA row :
                  ~(/\ changelog_operation(row) = event_id.operation
                    /\ changelog_kind(row) = event_id.kind
                    /\ changelog_id(row) = event_id.id))]

\* ChangeStore::remove: the result and the changelog it leaves.
ChangeStore_remove(event_id) ==
    LET params == event_id_params(event_id)
    IN IF bind_parameters(params) # "Ok" THEN [res |-> "Err", rows |-> changelog]
       ELSE [res |-> "Ok",
             rows |-> SelectSeq(changelog, LAMBDA row : ~event_id_where(row, params))]

ChangeStore_get_call(event_id) ==
    /\ alive
    /\ last' = [op |-> "ChangeStore::get", res |-> ChangeStore_get(event_id).res,
                out |-> ChangeStore_get(event_id).out]
    /\ UNCHANGED <<files, staging, now, alive>>

ChangeStore_remove_call(event_id) ==
    /\ alive
    /\ changelog' = ChangeStore_remove(event_id).rows
    /\ last' = [op |-> "ChangeStore::remove", res |-> ChangeStore_remove(event_id).res]
    /\ UNCHANGED <<files, staging_tag, staging_thing, staging_thing_tag, now, alive>>

ChangeStore_flush_call ==
    /\ alive
    /\ changelog' = ChangeStore_flush
    /\ last' = [op |-> "ChangeStore::flush", res |-> "Ok"]
    /\ UNCHANGED <<files, staging_tag, staging_thing, staging_thing_tag, now, alive>>

\* The Repository and ChangeStore write methods of a session, and commit.
StoreTagRecords == {r \in TagRecords : r.id = "a"}
StoreThingtags == {r \in Thingtags : r.tag_id = "a"}
StoreChanges ==
    {Insert([kind |-> "Tag", id |-> "b", name |-> Some("A"), summary |-> None]),
     Delete([kind |-> "Tag", id |-> "a"])}

NextStore ==
    \/ \E entity \in StoreTagRecords : TagStore_add(entity)
    \/ \E entity \in ThingRecords : ThingStore_add(entity)
    \/ \E entity \in StoreThingtags : ThingtagStore_add(entity)
    \/ \E entity_id \in {"a"} : TagStore_remove(entity_id)
    \/ \E entity_id \in ThingIds : ThingStore_remove(entity_id)
    \/ \E entity \in StoreThingtags :
           ThingtagStore_remove(<<entity.thing_id, entity.tag_id>>)
    \/ \E entity \in StoreTagRecords : TagStore_replace(entity)
    \/ \E entity \in ThingRecords : ThingStore_replace(entity)
    \/ \E entity \in StoreThingtags : ThingtagStore_replace(entity)
    \/ \E change \in StoreChanges : ChangeStore_add_call(change, now)
    \/ \E event_id \in EventIds : ChangeStore_get_call(event_id)
    \/ \E event_id \in EventIds : ChangeStore_remove_call(event_id)
    \/ ChangeStore_flush_call
    \/ commit
    \/ open

SpecStore == Init /\ [][NextStore]_vars

\* The changelog alone: changes of every operation are added, and flushed.
NextLog ==
    \/ \E change \in Changes : ChangeStore_add_call(change, now)
    \/ ChangeStore_flush_call
    \/ open

SpecLog == Init /\ [][NextLog]_vars

\* ------------------------------------------------------ a clock that advances
\* datetime('now') at the time of each staging::add: the seconds go by between
\* two calls, or do not.
ClockData == {d \in DataTag : d.name = None}

NextClock ==
    \/ \E data \in ClockData : \E t \in now..MaxClock : add(data, t)
    \/ commit
    \/ open

SpecClock == Init /\ [][NextClock]_vars

\* ------------------------------------------------------- Store::open, Disk
Strategies == {"Memory", "Disk"}

\* create_staging_db: ATTACH DATABASE creates .some.db when it is not there;
\* CREATE TABLE staging.changelog has no IF NOT EXISTS and fails on a file that
\* holds the table, and `?` returns the error: there is no Store.
create_staging_db(strategy) ==
    IF strategy = "Memory" THEN [res |-> "Ok", some_db |-> detach]
    ELSE IF detach.exists THEN [res |-> "Err", some_db |-> detach]
    ELSE [res |-> "Ok",
          some_db |-> [exists |-> TRUE, attached |-> TRUE, staging |-> EmptyStaging]]

\* Store::open(path, strategy)
Store_open(strategy) ==
    /\ some_db' = create_staging_db(strategy).some_db
    /\ changelog' = <<>>
    /\ staging_tag' = {}
    /\ staging_thing' = {}
    /\ staging_thing_tag' = {}
    /\ alive' = (create_staging_db(strategy).res = "Ok")
    /\ last' = [op |-> "Store::open", res |-> create_staging_db(strategy).res,
                strategy |-> strategy]
    /\ UNCHANGED <<tag_csv, thing_csv, thing_tag_csv, now>>

NextDisk ==
    \/ \E strategy \in Strategies : Store_open(strategy)
    \/ \E data \in ClockData : add(data, now)
    \/ commit

SpecDisk == Init /\ [][NextDisk]_vars

\* ------------------------------------------------------------------ claims
Count(seq, x) == Cardinality({i \in DOMAIN seq : seq[i] = x})
IsPrefix(s, t) == Len(s) <= Len(t) /\ SubSeq(t, 1, Len(s)) = s
Suffix(s, t) == SubSeq(t, Len(s) + 1, Len(t))

\* The id is in the source CSV of its kind, or staged as an insert in this session.
InSourceCsv(kind, id) ==
    IF kind = "Tag"
    THEN \E i \in 2..Len(tag_csv) : tag_csv[i][1] = id
    ELSE \E i \in 2..Len(thing_csv) : thing_csv[i][1] = id

StagedInsert(kind, id) ==
    \E i \in DOMAIN changelog :
        /\ changelog[i].data.operation = "Insert"
        /\ changelog[i].data.kind = kind
        /\ changelog[i].data.id = id

DataId(data) == IF data.kind = "Tag" THEN data.id ELSE data.url

\* C1: for a Tag or Thing whose id is not yet in the overlay, after the Repository
\* add returns Ok, get of its id returns the staged entity.
C1_AddThenGet ==
    [][/\ \A e \in TagRecords :
           (last' = [op |-> "TagStore::add", res |-> "Ok"] /\ TagStore_add(e)
                /\ TagStore_get(e.id) = None) =>
               TagStore_get(e.id)' = Some(e)
       /\ \A e \in ThingRecords :
           (last' = [op |-> "ThingStore::add", res |-> "Ok"] /\ ThingStore_add(e)
                /\ ThingStore_get(e.url) = None) =>
               ThingStore_get(e.url)' = Some(e)]_vars

\* C2: after services::staging::add(data) returns Ok the changelog has exactly one
\* more row, get of the staged id returns the staged id, name, summary (and
\* category), and the overlay relation of that kind has exactly one more row.
C2_StagedAddVisible ==
    [][last'.op = "staging::add" => \A data \in Data :
        (add(data, now') /\ last'.res = "Ok") =>
            /\ ChangeStore_len' = ChangeStore_len + 1
            /\ IF data.kind = "Tag"
               THEN /\ TagStore_get(data.id)' =
                         Some([id |-> data.id, name |-> data.name,
                               summary |-> data.summary])
                    /\ TagStore_len' = TagStore_len + 1
                    /\ ThingStore_len' = ThingStore_len
               ELSE /\ ThingStore_get(data.url)' =
                         Some([url |-> data.url, name |-> data.name,
                               summary |-> data.summary,
                               category_id |-> data.category])
                    /\ ThingStore_len' = ThingStore_len + 1
                    /\ TagStore_len' = TagStore_len]_vars

C2_Witness ==
    /\ last = [op |-> "staging::add", res |-> "Ok"]
    /\ Len(changelog) = 2
    /\ changelog[1].data.kind = "Tag"
    /\ changelog[2].data.kind = "Thing"
    /\ ThingStore_get("u") # None

\* C3: services::staging::add of a Tag or Thing whose id is in the source CSV or
\* already staged as an insert returns Duplicate and leaves the changelog, the
\* staging relations and the three CSV files as they were.
C3_DuplicateRejected ==
    [][last'.op = "staging::add" => \A data \in Data :
        (add(data, now') /\ (InSourceCsv(data.kind, DataId(data))
                        \/ StagedInsert(data.kind, DataId(data)))) =>
            /\ last'.res = "Duplicate"
            /\ UNCHANGED <<files, staging>>]_vars

C3_Witness ==
    /\ last = [op |-> "staging::add", res |-> "Duplicate"]
    /\ StagedInsert("Thing", "u")
    /\ InSourceCsv("Tag", "a")

\* C4: every Thing of the overlay has a category_id that is the id of a Tag of
\* the overlay.
C4_CategoryExists ==
    \A i \in DOMAIN thing_view :
        \E j \in DOMAIN tag_view : tag_view[j].id = thing_view[i].category_id

\* C5: after ThingStore::remove(url) returns Ok the overlay thing_tag relation has
\* no row with thing_id = url, in whichever ring the row lives.
C5_RemoveCascades ==
    [][last'.op = "ThingStore::remove" => \A url \in ThingIds :
        (ThingStore_remove(url) /\ last'.res = "Ok") =>
            \A r \in thing_tag_view' : r.thing_id # url]_vars

\* The overlay Tag rows whose id differs from every given id.
RowsWithout(ids) ==
    SelectSeq(tag_view, LAMBDA r : \A i \in DOMAIN ids : ids[i] # r.id)

WellFormed(ids) == \A i \in DOMAIN ids : \A k \in DOMAIN chars(ids[i]) : chars(ids[i])[k] # "'"

\* C6: for every list of well-formed tag ids, the empty list included,
\* TagStore::list_without returns exactly the overlay Tag rows whose id is not in
\* the list.
C6_ListWithout ==
    [][last'.op = "TagStore::list_without" => \A ids \in ListWithoutArgs :
        (WellFormed(ids) /\ TagStore_list_without(ids)) =>
            /\ last'.res = "Ok"
            /\ last'.out = RowsWithout(ids)
            /\ \A k \in DOMAIN last'.out : \A i \in DOMAIN ids : last'.out[k].id # ids[i]]_vars

C6_Witness ==
    /\ last.op = "TagStore::list_without"
    /\ last.res = "Ok"
    /\ Len(last.out) = 1
    /\ Len(tag_view) = 2
    /\ tag_view[1].id # tag_view[2].id

\* C7: TagStore::list_without given an id holding a single quote either fails or
\* returns exactly the overlay tags whose id differs from every given id.
C7_QuoteIsOpaque ==
    [][last'.op = "TagStore::list_without" => \A ids \in ListWithoutArgs :
        (~WellFormed(ids) /\ TagStore_list_without(ids)) =>
            \/ last'.res = "Err"
            \/ last'.out = RowsWithout(ids)]_vars

\* C8: commit on an empty changelog changes neither the CSV files nor the
\* staging ring, and leaves the changelog empty.
C8_EmptyCommitNoop ==
    [][(last'.op = "staging::commit" /\ changelog = <<>> /\ commit) =>
        /\ UNCHANGED <<files, staging>>
        /\ changelog' = <<>>]_vars

C8_Witness ==
    /\ last = [op |-> "staging::commit", res |-> "Ok", written |-> 0, opened |-> TRUE]
    /\ changelog = <<>>
    /\ Len(tag_csv) > 1

\* The record each kind of Insert event is to leave in its file.
TagRecordOf(j) ==
    <<j.id, IF j.name = None THEN "" ELSE j.name[1],
      IF j.summary = None THEN "" ELSE j.summary[1]>>
ThingRecordOf(j) ==
    <<j.id, j.name, IF j.summary = None THEN "" ELSE j.summary[1], j.category>>

IsInsertOf(row, kind) == row.data.operation = "Insert" /\ row.data.kind = kind

\* C9: a successful commit appends to tag.csv one record per Insert(Tag) event,
\* to thing.csv one record per Insert(Thing) event and to thing_tag.csv one
\* (url, tag_id) record per entry of each Thing's tag list; what each file held
\* before, header included, stays as a prefix.
C9_CommitAppends ==
    [][(last'.op = "staging::commit" /\ last'.res = "Ok" /\ commit) =>
        /\ IsPrefix(tag_csv, tag_csv')
        /\ IsPrefix(thing_csv, thing_csv')
        /\ IsPrefix(thing_tag_csv, thing_tag_csv')
        /\ \A r \in {TagRecordOf(changelog[i].data) :
                        i \in {k \in DOMAIN changelog : IsInsertOf(changelog[k], "Tag")}}
                    \cup {tag_csv'[i] : i \in DOMAIN tag_csv'} :
               Count(Suffix(tag_csv, tag_csv'), r) =
                   Cardinality({i \in DOMAIN changelog :
                                   /\ IsInsertOf(changelog[i], "Tag")
                                   /\ TagRecordOf(changelog[i].data) = r})
        /\ \A r \in {ThingRecordOf(changelog[i].data) :
                        i \in {k \in DOMAIN changelog : IsInsertOf(changelog[k], "Thing")}}
                    \cup {thing_csv'[i] : i \in DOMAIN thing_csv'} :
               Count(Suffix(thing_csv, thing_csv'), r) =
                   Cardinality({i \in DOMAIN changelog :
                                   /\ IsInsertOf(changelog[i], "Thing")
                                   /\ ThingRecordOf(changelog[i].data) = r})
        /\ \A url \in ThingIds, t \in TagIds :
               Count(Suffix(thing_tag_csv, thing_tag_csv'), <<url, t>>) =
                   Cardinality({p \in (DOMAIN changelog) \X (1..2) :
                                   /\ IsInsertOf(changelog[p[1]], "Thing")
                                   /\ changelog[p[1]].data.id = url
                                   /\ p[2] \in DOMAIN changelog[p[1]].data.tags
                                   /\ changelog[p[1]].data.tags[p[2]] = t})
        /\ Len(thing_tag_csv') - Len(thing_tag_csv) =
               Cardinality({p \in (DOMAIN changelog) \X (1..2) :
                               /\ IsInsertOf(changelog[p[1]], "Thing")
                               /\ p[2] \in DOMAIN changelog[p[1]].data.tags})]_vars

C9_Witness ==
    /\ last = [op |-> "staging::commit", res |-> "Ok", written |-> 4, opened |-> TRUE]
    /\ Len(thing_tag_csv) >= 3
    /\ thing_tag_csv[Len(thing_tag_csv)] = thing_tag_csv[Len(thing_tag_csv) - 1]

\* C10: after a commit that returns Ok the changelog is empty; after a commit
\* that fails (an append failed partway) every changelog row is still there.
C10_ClearedIffDrained ==
    [][(last'.op = "staging::commit" /\ commit) =>
        /\ last'.res = "Ok" => changelog' = <<>>
        /\ last'.res # "Ok" => changelog' = changelog]_vars

C10_Witness ==
    /\ last = [op |-> "staging::commit", res |-> "Err", written |-> 1, opened |-> TRUE]
    /\ Len(changelog) = 2

\* commit got as far as a Replace or Delete event: every record before it was
\* written and the files were open.
ReachesUnsupported ==
    /\ drain(ChangeStore_to_vec).panic
    /\ last'.opened
    /\ last'.written = Len(drain(ChangeStore_to_vec).writes)

\* C11: when commit reaches a Replace or Delete event it returns to its caller
\* (the process keeps running) a result that is an error and not a panic, and
\* every changelog row is still there.
C11_UnsupportedIsResult ==
    [][(last'.op = "staging::commit" /\ commit /\ ReachesUnsupported) =>
        /\ alive'
        /\ last'.res \notin {"Ok", "Panic"}
        /\ changelog' = changelog]_vars

\* C16: the overlay Tag relation holds at most one row per Tag id, so that to_vec
\* and len count an id present in both rings once.
C16_TagIdUnique ==
    /\ \A i, j \in DOMAIN tag_view : tag_view[i].id = tag_view[j].id => i = j
    /\ TagStore_len = Cardinality({tag_view[i].id : i \in DOMAIN tag_view})

\* C17: when an id is in the changelog arm and in the source arm of a view, get
\* returns the staging row for every order in which the engine may return the
\* rows of the union.
C17_StagingWins ==
    /\ \A id \in TagIds :
        (TagStore_get_in(tag_view_staging, id) # None
            /\ TagStore_get_in(tag_view_source, id) # None) =>
           \A rows \in tag_view_orders :
               TagStore_get_in(rows, id) = TagStore_get_in(tag_view_staging, id)
    /\ \A url \in ThingIds :
        (ThingStore_get_in(thing_view_staging, url) # None
            /\ ThingStore_get_in(thing_view_source, url) # None) =>
           \A rows \in thing_view_orders :
               ThingStore_get_in(rows, url) = ThingStore_get_in(thing_view_staging, url)

\* The number of records of a CSV file whose first field is id.
RecordsWithId(file, id) == Cardinality({i \in 2..Len(file) : file[i][1] = id})

\* C12: when a commit that failed is retried and returns Ok, the record of every
\* Insert(Tag) and Insert(Thing) event of the changelog is in its CSV file exactly
\* once.
C12_RetryAppendsOnce ==
    [][(last.op = "staging::commit" /\ last.res = "Err"
            /\ last'.op = "staging::commit" /\ last'.res = "Ok" /\ commit) =>
        \A i \in DOMAIN changelog :
            /\ IsInsertOf(changelog[i], "Tag") =>
                   RecordsWithId(tag_csv', changelog[i].data.id) = 1
            /\ IsInsertOf(changelog[i], "Thing") =>
                   RecordsWithId(thing_csv', changelog[i].data.id) = 1]_vars

SetOf(seq) == {seq[i] : i \in DOMAIN seq}

\* The (thing_id, tag_id) rows the staged Things carry in their tag lists.
StagedThingTags ==
    {[thing_id |-> changelog[p[1]].data.id, tag_id |-> changelog[p[1]].data.tags[p[2]]] :
        p \in {q \in (DOMAIN changelog) \X (1..2) :
                  /\ IsInsertOf(changelog[q[1]], "Thing")
                  /\ q[2] \in DOMAIN changelog[q[1]].data.tags}}

\* C13: after a commit that returns Ok, what a newly opened Store reads (its
\* changelog is empty, so the views hold the source rows only) is, as sets, the
\* Tag, Thing and ThingTag rows the source held before the commit together with
\* the rows that were staged.
C13_ReopenIsUnion ==
    [][(last'.op = "staging::commit" /\ last'.res = "Ok" /\ commit) =>
        /\ SetOf(tag_view_source') = SetOf(tag_view_source) \cup SetOf(tag_view_staging)
        /\ SetOf(thing_view_source') =
               SetOf(thing_view_source) \cup SetOf(thing_view_staging)
        /\ SetOf(MapSeq(csv_rows(thing_tag_csv'), source_thing_tag_row)) =
               SetOf(MapSeq(csv_rows(thing_tag_csv), source_thing_tag_row))
                   \cup StagedThingTags]_vars

\* C14: every ThingTag row, in the overlay and in thing_tag.csv, has the url of a
\* Thing of the overlay as its thing_id and the id of a Tag of the overlay as its
\* tag_id.
C14_ThingTagRefsExist ==
    \A r \in thing_tag_view \cup SetOf(MapSeq(csv_rows(thing_tag_csv), source_thing_tag_row)) :
        /\ \E i \in DOMAIN thing_view : thing_view[i].url = r.thing_id
        /\ \E j \in DOMAIN tag_view : tag_view[j].id = r.tag_id

\* C15: thing_tag.csv holds no two records with the same (thing_id, tag_id).
C15_ThingTagKeyUnique ==
    \A i, j \in 2..Len(thing_tag_csv) : thing_tag_csv[i] = thing_tag_csv[j] => i = j

\* The Tags of the overlay that are the category of a Thing of the overlay.
CategoryTags ==
    {tag_view[j] : j \in {k \in DOMAIN tag_view :
                            \E i \in DOMAIN thing_view :
                                thing_view[i].category_id = tag_view[k].id}}

\* C18: TagStore::list_categories returns Ok with exactly the Tags of the overlay
\* whose id is the category_id of at least one Thing of the overlay, each id
\* once, in ascending id order (so the empty list when there is no Thing).
C18_ListCategories ==
    [][(last'.op = "TagStore::list_categories" /\ TagStore_list_categories) =>
        /\ last'.res = "Ok"
        /\ {last'.out[i].id : i \in DOMAIN last'.out} = {t.id : t \in CategoryTags}
        /\ \A i, j \in DOMAIN last'.out :
               i < j => collate(last'.out[i].id) < collate(last'.out[j].id)
        /\ thing_view = <<>> => last'.out = <<>>]_vars

\* C19: ThingStore::list_categorised(c) returns exactly the Things of the overlay
\* whose category_id is c, and each one staged in the changelog carries the tag
\* ids it was staged with, in ascending order.
C19_ListCategorised ==
    [][last'.op = "ThingStore::list_categorised" => \A c \in TagIds :
        ThingStore_list_categorised(c) =>
            /\ last'.res = "Ok"
            /\ MapSeq(last'.out, LAMBDA t : [url |-> t.url, name |-> t.name,
                                              summary |-> t.summary,
                                              category_id |-> t.category]) =
                   SelectSeq(thing_view, LAMBDA r : r.category_id = c)
            /\ \A i \in DOMAIN changelog :
                   (is_thing_insert(changelog[i]) /\ changelog[i].data.category = c) =>
                       \E k \in DOMAIN last'.out :
                           /\ last'.out[k].url = changelog[i].data.id
                           /\ last'.out[k].tags =
                                  order_by_tag_id(changelog[i].data.tags)]_vars

\* C20: no Tag returned by to_vec or get has Some("") as its name or summary, and
\* no Thing has Some("") as its summary: an empty cell of the source is absent.
C20_EmptyMeansAbsent ==
    /\ \A i \in DOMAIN TagStore_to_vec :
           TagStore_to_vec[i].name # Some("") /\ TagStore_to_vec[i].summary # Some("")
    /\ \A id \in TagIds :
           TagStore_get(id) # None =>
               TagStore_get(id)[1].name # Some("") /\ TagStore_get(id)[1].summary # Some("")
    /\ \A i \in DOMAIN ThingStore_to_vec : ThingStore_to_vec[i].summary # Some("")
    /\ \A url \in ThingIds :
           ThingStore_get(url) # None => ThingStore_get(url)[1].summary # Some("")

\* C21: NewThingBuilder::build returns Ok exactly when url, name and category_id
\* are set, whatever summary and tags are; otherwise it returns the error of the
\* first absent field in the order url, name, category; on Ok every field of the
\* NewThing is the value the builder holds, and each with_* method makes the
\* builder hold the value given (with_tag adds it to the end of the tags) and
\* leaves the other fields alone.
C21_BuildRequiresThree ==
    [][/\ last'.op = "NewThingBuilder::build" =>
           LET b == last.builder
           IN /\ last'.res = "Ok" <=>
                     (b.url # None /\ b.name # None /\ b.category_id # None)
              /\ b.url = None => last'.res = "MissingUrl"
              /\ (b.url # None /\ b.name = None) => last'.res = "MissingName"
              /\ (b.url # None /\ b.name # None /\ b.category_id = None) =>
                     last'.res = "MissingCategory"
              /\ last'.res = "Ok" =>
                     last'.out = Some([url |-> b.url[1], name |-> b.name[1],
                                       summary |-> b.summary,
                                       category_id |-> b.category_id[1],
                                       tags |-> b.tags])
              /\ last'.res # "Ok" => last'.out = None
       /\ last'.op = "NewThingBuilder::with_url" =>
           \E x \in BuilderUrls : last'.builder = [last.builder EXCEPT !.url = Some(x)]
       /\ last'.op = "NewThingBuilder::with_name" =>
           \E x \in BuilderNames : last'.builder = [last.builder EXCEPT !.name = Some(x)]
       /\ last'.op = "NewThingBuilder::with_summary" =>
           \E x \in BuilderSummaries :
               last'.builder = [last.builder EXCEPT !.summary = Some(x)]
       /\ last'.op = "NewThingBuilder::with_category_id" =>
           \E x \in BuilderCategories :
               last'.builder = [last.builder EXCEPT !.category_id = Some(x)]
       /\ last'.op = "NewThingBuilder::with_tags" =>
           \E x \in BuilderTagLists : last'.builder = [last.builder EXCEPT !.tags = x]
       /\ last'.op = "NewThingBuilder::with_tag" =>
           \E x \in BuilderTags :
               last'.builder = [last.builder EXCEPT !.tags = last.builder.tags \o <<x>>]]_vars

C21_Witness ==
    /\ last.op = "NewThingBuilder::build"
    /\ last.res = "Ok"
    /\ last.out[1].url = "v"
    /\ last.out[1].summary = None
    /\ last.out[1].tags = <<"a", "b">>

\* The Repository write methods and the ChangeStore write methods.
StoreWriteOps ==
    {"TagStore::add", "TagStore::remove", "TagStore::replace",
     "ThingStore::add", "ThingStore::remove", "ThingStore::replace",
     "ThingtagStore::add", "ThingtagStore::remove", "ThingtagStore::replace",
     "ChangeStore::add", "ChangeStore::remove", "ChangeStore::flush"}

\* C22: after Repository add, remove or replace of any entity type, and after
\* ChangeStore add, remove or flush, whatever the call returned, the three CSV
\* files and the rows of the source relations are what they were; a step that
\* changes a CSV file is a commit.
C22_WritesOnlyStaging ==
    [][/\ (last'.op \in StoreWriteOps) =>
              /\ UNCHANGED <<tag_csv, thing_csv, thing_tag_csv>>
              /\ tag_view_source' = tag_view_source
              /\ thing_view_source' = thing_view_source
       /\ (<<tag_csv, thing_csv, thing_tag_csv>>' # <<tag_csv, thing_csv, thing_tag_csv>>) =>
              last'.op = "staging::commit"]_vars

\* A Thing tag was removed from staging over a package whose files hold rows,
\* after a commit had written to them.
C22_Witness ==
    /\ last.op = "ThingtagStore::remove"
    /\ staging_thing_tag = {}
    /\ staging_tag # {}
    /\ Len(tag_csv) = 3
    /\ Len(thing_tag_csv) = 2

C23_ChangelogAppendOnly ==
    [][/\ (last'.op \notin {"staging::commit", "ChangeStore::flush", "open"}) =>
              IsPrefix(changelog, changelog')
       /\ (last'.op = "ChangeStore::flush") => changelog' = <<>>
       /\ (last'.op = "staging::commit" /\ last'.res = "Ok") => changelog' = <<>>]_vars

\* ChangeStore::remove was called with the operation, kind and id of a row of
\* the changelog, which holds two rows.
C23_Witness ==
    /\ last.op = "ChangeStore::remove"
    /\ Len(changelog) = 2
    /\ \E i \in DOMAIN changelog : \E ev \in EventIds :
           /\ changelog_operation(changelog[i]) = ev.operation
           /\ changelog_kind(changelog[i]) = ev.kind
           /\ changelog_id(changelog[i]) = ev.id

\* C25: a Change given to ChangeStore::add is its own JSON round trip, every
\* Event of ChangeStore::to_vec is its own JSON round trip, and to_vec then
\* returns an event whose change equals the one added.
C25_ChangeRoundTrip ==
    [][(last'.op = "ChangeStore::add") => \A c \in Changes :
        (ChangeStore_add_call(c, now) /\ last'.res = "Ok") =>
            /\ from_json(to_json(c)) = c
            /\ \A i \in DOMAIN ChangeStore_to_vec' :
                   event_from_json(event_to_json(ChangeStore_to_vec'[i])) =
                       ChangeStore_to_vec'[i]
            /\ \E i \in DOMAIN ChangeStore_to_vec' :
                   ChangeStore_to_vec'[i].change = c]_vars

\* ChangeStore::add was given the Replace of a Thing after a Delete.
C25_Witness ==
    /\ last.op = "ChangeStore::add"
    /\ last.res = "Ok"
    /\ Len(changelog) = 2
    /\ changelog[1].data.operation = "Delete"
    /\ changelog[2].data.operation = "Replace"
    /\ changelog[2].data.kind = "Thing"

\* The changelog rows whose four fields are the ones of the EventId.
EventIdMatches(row, event_id) ==
    /\ row.timestamp = event_id.timestamp
    /\ changelog_operation(row) = event_id.operation
    /\ changelog_kind(row) = event_id.kind
    /\ changelog_id(row) = event_id.id

\* C30: ChangeStore::get(event_id) returns the change of the changelog row whose
\* timestamp, operation, kind and id are the fields of event_id, None when there
\* is none; ChangeStore::remove(event_id) leaves exactly the rows that do not
\* match the four fields.
C30_EventIdSelects ==
    [][/\ (last'.op = "ChangeStore::get") => \A ev \in EventIds :
              ChangeStore_get_call(ev) =>
                  LET rows == SelectSeq(changelog, LAMBDA row : EventIdMatches(row, ev))
                  IN last'.out = IF rows = <<>> THEN None
                                 ELSE Some(from_json(rows[1].data))
       /\ (last'.op = "ChangeStore::remove") => \A ev \in EventIds :
              ChangeStore_remove_call(ev) =>
                  changelog' =
                      SelectSeq(changelog, LAMBDA row : ~EventIdMatches(row, ev))]_vars

\* C27: a commit that returns Ok leaves the overlay Tag and Thing relations with
\* the entities they had before it, as many of them, and every id as often as
\* before: the drained rows are read from the files in the same session.
C27_OverlayIsLive ==
    [][(last'.op = "staging::commit" /\ last'.res = "Ok" /\ commit) =>
        /\ SetOf(tag_view') = SetOf(tag_view)
        /\ SetOf(thing_view') = SetOf(thing_view)
        /\ Len(tag_view') = Len(tag_view)
        /\ Len(thing_view') = Len(thing_view)
        /\ \A id \in TagIds : TagStore_get(id)' = TagStore_get(id)
        /\ \A url \in ThingIds : ThingStore_get(url)' = ThingStore_get(url)]_vars

\* C29: after TagStore::remove(id) returned Ok, TagStore::get(id) returns None,
\* and after ThingStore::remove(url) returned Ok, ThingStore::get(url) returns
\* None, wherever the entity was.
C29_RemovedIsGone ==
    [][/\ (last'.op = "TagStore::remove") => \A id \in TagIds :
              (TagStore_remove(id) /\ last'.res = "Ok") => TagStore_get(id)' = None
       /\ (last'.op = "ThingStore::remove") => \A url \in ThingIds :
              (ThingStore_remove(url) /\ last'.res = "Ok") =>
                  ThingStore_get(url)' = None]_vars

\* C26: of two Tag insertions of the changelog with different timestamps, commit
\* appends the record of the one with the smaller timestamp to tag.csv before the
\* record of the other; a commit that returns Ok appends the record of each.
C26_ReplayInTimestampOrder ==
    [][(last'.op = "staging::commit" /\ commit) =>
        LET new == Suffix(tag_csv, tag_csv')
            inserts == {i \in DOMAIN changelog : IsInsertOf(changelog[i], "Tag")}
        IN /\ last'.res = "Ok" =>
                  \A i \in inserts : \E p \in DOMAIN new :
                      new[p] = TagRecordOf(changelog[i].data)
           /\ \A i \in inserts, j \in inserts :
                  changelog[i].timestamp < changelog[j].timestamp =>
                      \A p \in DOMAIN new, q \in DOMAIN new :
                          (/\ new[p] = TagRecordOf(changelog[i].data)
                           /\ new[q] = TagRecordOf(changelog[j].data)) => p < q]_vars

\* A commit wrote the records of Tag b and Tag a, in this order, to an empty
\* tag.csv, the clock having advanced since the session began.
C26_Witness ==
    /\ last.op = "staging::commit"
    /\ last.res = "Ok"
    /\ last.written = 2
    /\ now = 1
    /\ tag_csv = <<TagHeader, <<"b", "", "">>, <<"a", "", "">>>>

\* The changelog rows .some.db holds when a store is about to be opened.
RowsOnDisk == detach.staging[1]

\* C24: Store::open with Strategy::Memory returns a store whose changelog is
\* empty; Store::open with Strategy::Disk returns a store, on a package that has
\* .some.db as well, and its changelog holds the rows the file held.
C24_StrategyPersistence ==
    [][(last'.op = "Store::open") =>
        /\ last'.strategy = "Memory" => (last'.res = "Ok" /\ changelog' = <<>>)
        /\ last'.strategy = "Disk" =>
               /\ last'.res = "Ok"
               /\ changelog' = IF detach.exists THEN RowsOnDisk ELSE <<>>]_vars
====
